---- MODULE Spec2Model ----
(***************************************************************************)
(* usim: one Activity (usim/_primitives/activity.py), its Done / NotDone   *)
(* condition pair, the payload coroutine it wraps, the callers that        *)
(* cancel, close and await it, and the event loop that dispatches them.    *)
(*                                                                         *)
(* The Activity, Done and NotDone are translated from activity.py.  The    *)
(* event loop (usim/_core/loop.py) and Condition (condition.py) are not    *)
(* among these sources; the definitions of the loop and of the waiter set  *)
(* below follow the design document of the runtime (sections 3, 4.1, 4.2   *)
(* and 4.4).                                                               *)
(***************************************************************************)
EXTENDS Naturals, Sequences, FiniteSets

\* ---------------------------------------------------------------- bounds
\* suspension points of the longest payload
MaxSteps == 2
\* cancel() / __close__() / direct __set_done__() calls made by other code
MaxCalls == 2
\* coroutines that await the Activity
NumWaiters == 2
\* awaits they make in all
MaxAwaits == 3

Waiters == 1 .. NumWaiters

\* ------------------------------------------------------------ the inputs
\* What a payload coroutine does: how many times it suspends, how it ends
\* when left alone, and what it does with a CancelActivity thrown into it.
Endings == {"return", "raise"}
Handlers == {"propagate", "swallow", "return", "raise"}
Programs == [plen : 0 .. MaxSteps, ending : Endings, onSignal : Handlers]
\* A payload suspends until the next turn of this time (0) or until a later
\* time (1).
Delays == {0, 1}

VARIABLES
    prog,            \* the payload's behaviour (an input, fixed by Init)
    payload,         \* the payload coroutine: [state, pc]
    runner,          \* the payload_wrapper coroutine (Activity.__runner__)
    _result,         \* Activity._result: <<>> is None, else <<value, error>>
    _cancellations,  \* Activity._cancellations: interrupt ids, in order
    interrupts,      \* the CancelActivity objects made so far, by id
    _done,           \* Activity._done: reference to the Done object
    _value,          \* Done._value
    _inverse,        \* Done._inverse: reference to the NotDone object
    NotDone_done,    \* NotDone._done: reference to the Done object
    waiting,         \* coroutines suspended on the Done condition
    time, turn,      \* the loop's virtual clock
    pending,         \* the loop's ready queue (entries due now)
    queue,           \* the loop's queue of entries due later
    loop,            \* "running", "finished" or "aborted"
    wpc,             \* each waiter: "idle", "waiting", "scheduled"
    outcomes,        \* each waiter: what its awaits produced, in order
    hist             \* history of the run (see Init)

vars == <<prog, payload, runner, _result, _cancellations, interrupts, _done,
          _value, _inverse, NotDone_done, waiting, time, turn, pending,
          queue, loop, wpc, outcomes, hist>>

\* ----------------------------------------------------------- data values
None == "None"
NoResult == <<>>

\* An exception object; absent fields hold None.
Error(type, subject, cause) == [type |-> type, subject |-> subject, cause |-> cause]
NoError == Error(None, None, None)
\* the error a payload raises on its own
DomainError == Error("DomainError", None, None)
\* the value a payload returns
PayloadValue == "Val"

\* The identity of the Activity under study.
Self == "activity"
\* another Activity
Other == "other"

\* ActivityState
CREATED == "CREATED"
RUNNING == "RUNNING"
CANCELLED == "CANCELLED"
FAILED == "FAILED"
SUCCESS == "SUCCESS"
FINISHED == {CANCELLED, FAILED, SUCCESS}

\* ActivityCancelled(subject, *token)
ActivityCancelled(subject, cause) == Error("ActivityCancelled", subject, cause)

\* ActivityExit('activity closed'), the default reason of __close__
ActivityExit == Error("ActivityExit", None, None)

\* CancelActivity(subject, *token): a fresh Interrupt
CancelActivity_NoSubject(subject) ==
    [subject |-> None, scheduled |-> FALSE, revoked |-> FALSE, delivered |-> FALSE]

CancelActivity(subject) ==
    [subject |-> subject, scheduled |-> FALSE, revoked |-> FALSE, delivered |-> FALSE]

Transcript_Raw(i) == Error("CancelActivity", interrupts[i].subject, None)

\* CancelActivity.__transcript__ of interrupt i
Transcript(i) == ActivityCancelled(interrupts[i].subject, i)

\* Object references of the Done / NotDone pair.
DoneObj == "Done"
NotDoneObj == "NotDone"

\* ------------------------------------------------------- Done / NotDone
\* Done.__bool__
Done_bool == _value

NotDone_bool_Frozen == TRUE

\* NotDone.__bool__: not self._done
NotDone_bool == IF NotDone_done = DoneObj THEN ~Done_bool ELSE TRUE

\* Done.__invert__
Done_invert == _inverse

\* NotDone.__invert__
NotDone_invert == NotDone_done

\* bool(o) and ~o for an object reference o
Bool(o) == IF o = DoneObj THEN Done_bool ELSE NotDone_bool
Invert(o) == IF o = DoneObj THEN Done_invert ELSE NotDone_invert

SetDoneAssert_Off == TRUE

\* the assertion of Done.__set_done__
SetDoneAssert == ~_value

\* ------------------------------------------------------------- Activity
\* Activity.done
done == _done

status_NoStartCheck ==
    IF _result # NoResult
    THEN IF _result[2] # NoError
         THEN IF _result[2].type = "ActivityCancelled" THEN CANCELLED ELSE FAILED
         ELSE SUCCESS
    ELSE IF runner \in {"CREATED", "SUSPENDED"} THEN RUNNING ELSE "AttributeError"

\* Activity.status.  Reading cr_frame.f_lasti of a coroutine that has ended
\* raises AttributeError (its cr_frame is None).
status ==
    IF _result # NoResult
    THEN IF _result[2] # NoError
         THEN IF _result[2].type = "ActivityCancelled" THEN CANCELLED ELSE FAILED
         ELSE SUCCESS
    ELSE IF runner = "CREATED" THEN CREATED
         ELSE IF runner = "SUSPENDED" THEN RUNNING
         ELSE "AttributeError"

PreRunCancelled_Skipped == FALSE

\* payload_wrapper: "if self._result is not None" (the pre-run cancellation)
PreRunCancelled == _result # NoResult

CancelGuard_Always == TRUE

\* cancel: "if self._result is None"
CancelGuard == _result = NoResult

CloseGuard_Always == TRUE

\* __close__: "if self._result is None"
CloseGuard == _result = NoResult

\* Activity.__await__, after done: unpack _result, raise the error or return
\* the value.  Unpacking None is a TypeError.
AwaitOutcome ==
    IF _result = NoResult
    THEN [raised |-> TRUE, value |-> None, error |-> Error("TypeError", None, None)]
    ELSE IF _result[2] # NoError
         THEN [raised |-> TRUE, value |-> None, error |-> _result[2]]
         ELSE [raised |-> FALSE, value |-> _result[1], error |-> NoError]

\* payload_wrapper: "for cancellation in self._cancellations: revoke()"
RevokeAll(ints) ==
    [i \in 1 .. Len(ints) |->
        IF \E k \in 1 .. Len(_cancellations) : _cancellations[k] = i
        THEN [ints[i] EXCEPT !.revoked = TRUE]
        ELSE ints[i]]

\* ----------------------------------------------------------------- loop
\* A scheduled resumption of target (0: the Activity's runner, w: waiter w),
\* carrying signal (0: a plain resume, i: interrupt i).
Entry(target, signal) == [target |-> target, signal |-> signal]
Later(at, target, signal) == [at |-> at, target |-> target, signal |-> signal]

IsWake(e) == e.target = 0 /\ e.signal = 0

\* A suspension that is ended by a signal or a close gives up its own
\* plain resumption.
DropWake(q) == SelectSeq(q, LAMBDA e : ~IsWake(e))

\* Condition.__trigger__: every suspended waiter is scheduled now
Woken(p) == p \o [k \in 1 .. Len(waiting) |-> Entry(waiting[k], 0)]

RunnerDead == runner \in {"RETURNED", "RAISED", "CLOSED"}

\* ----------------------------------------------------------------- Init
Init ==
    /\ prog \in Programs
    /\ payload = [state |-> "created", pc |-> 0]
    /\ runner = "CREATED"
    /\ _result = NoResult
    /\ _cancellations = <<>>
    /\ interrupts = <<>>
    /\ _done = DoneObj
    /\ _value = FALSE
    /\ _inverse = NotDoneObj
    /\ NotDone_done = DoneObj
    /\ waiting = <<>>
    /\ time = 0
    /\ turn = 0
    /\ pending = <<Entry(0, 0)>>
    /\ queue = <<>>
    /\ loop = "running"
    /\ wpc = [w \in Waiters |-> "idle"]
    /\ outcomes = [w \in Waiters |-> <<>>]
    /\ hist = [assigned |-> 0,          \* assignments made to _result
               psteps |-> 0,            \* times the payload was run
               psignals |-> 0,          \* signals the payload received
               setDoneCalls |-> 0,      \* calls of Done.__set_done__
               assertFails |-> 0,       \* of them, failed assertions
               ncalls |-> 0,            \* calls made by other code
               cancelledCreated |-> FALSE, \* cancel() before the first dispatch
               forced |-> FALSE,        \* __close__() found no result
               deleted |-> FALSE,       \* __del__ has run
               late |-> {},             \* calls made after a result was set
               propagated |-> 0,        \* interrupt the wrapper caught
               escaped |-> None,        \* error that left the runner
               lateThrows |-> 0,        \* signals thrown at an ended runner
               revokedDelivered |-> FALSE, \* revoke() of a delivered one
               stopTime |-> <<>>,       \* when the unit of work stopped
               nawaits |-> 0,           \* awaits started
               resumeTimes |-> {}]      \* when suspended waiters ran on

\* -------------------------------------------------- Done.__set_done__
\* Done.__set_done__ called with ready queue p: the assertion, the flag,
\* the trigger.  A failed assertion changes nothing and raises.
SetDone(p) ==
    IF SetDoneAssert
    THEN /\ _value' = TRUE
         /\ pending' = Woken(p)
         /\ waiting' = <<>>
         /\ wpc' = [w \in Waiters |-> IF wpc[w] = "waiting" THEN "scheduled" ELSE wpc[w]]
    ELSE /\ pending' = p
         /\ UNCHANGED <<_value, waiting, wpc>>

\* the history of a __set_done__ call
HistDone(h) ==
    [h EXCEPT !.setDoneCalls = @ + 1,
              !.assertFails = IF SetDoneAssert THEN @ ELSE @ + 1]

\* the history of the unit of work stopping now
HistStop(h) == [h EXCEPT !.stopTime = IF @ = <<>> THEN <<time>> ELSE @]

\* ------------------------------------------------- payload_wrapper
\* What the payload does when it is run from its current point: suspend at
\* its next await, or end.
Segment == IF payload.pc < prog.plen THEN "suspend" ELSE prog.ending

\* What the payload does with a CancelActivity thrown in at its await.
OnSignal ==
    CASE prog.onSignal = "propagate" -> "cancelled"
      [] prog.onSignal = "swallow" -> Segment
      [] prog.onSignal = "return" -> "return"
      [] OTHER -> "raise"

SubjectAssert_Off(ints, i) == TRUE

\* assert err.subject is self
SubjectAssert(ints, i) == ints[i].subject = Self

\* The rest of a step of payload_wrapper, once the payload has done o
\* ("suspend", "return", "raise", or "cancelled": CancelActivity i left it),
\* with ready queue p, later queue q, interrupts ints and history h.
WrapperStep(o, i, p, q, ints, h) ==
    CASE o = "suspend" ->
            /\ payload' = [state |-> "suspended", pc |-> payload.pc + 1]
            /\ runner' = "SUSPENDED"
            /\ \E d \in Delays :
                 IF d = 0
                 THEN pending' = Append(p, Entry(0, 0)) /\ queue' = q
                 ELSE pending' = p /\ queue' = Append(q, Later(time + d, 0, 0))
            /\ interrupts' = ints
            /\ hist' = h
            /\ UNCHANGED <<_result, _value, waiting, wpc, loop>>
      [] o = "raise" ->
            \* not a CancelActivity: it leaves the wrapper, nothing is recorded
            /\ payload' = [payload EXCEPT !.state = "raised"]
            /\ runner' = "RAISED"
            /\ loop' = "aborted"
            /\ pending' = p
            /\ queue' = q
            /\ interrupts' = ints
            /\ hist' = HistStop([h EXCEPT !.escaped = "DomainError"])
            /\ UNCHANGED <<_result, _value, waiting, wpc>>
      [] o = "cancelled" /\ ~SubjectAssert(ints, i) ->
            \* the assertion fails inside the handler: AssertionError leaves
            /\ payload' = [payload EXCEPT !.state = "cancelled"]
            /\ runner' = "RAISED"
            /\ loop' = "aborted"
            /\ pending' = p
            /\ queue' = q
            /\ interrupts' = ints
            /\ hist' = HistStop([h EXCEPT !.propagated = i,
                                           !.escaped = "AssertionError"])
            /\ UNCHANGED <<_result, _value, waiting, wpc>>
      [] OTHER ->
            \* "cancelled" by its own interrupt, or "return"
            /\ payload' = [payload EXCEPT !.state = IF o = "cancelled" THEN "cancelled" ELSE "returned"]
            /\ _result' = IF o = "cancelled"
                          THEN <<None, Transcript(i)>>
                          ELSE <<PayloadValue, NoError>>
            /\ interrupts' = RevokeAll(ints)
            /\ SetDone(p)
            /\ queue' = q
            /\ IF SetDoneAssert
               THEN runner' = "RETURNED" /\ loop' = loop
               ELSE runner' = "RAISED" /\ loop' = "aborted"
            /\ hist' = HistStop(HistDone(
                 [h EXCEPT !.assigned = @ + 1,
                           !.propagated = IF o = "cancelled" THEN i ELSE @,
                           !.revokedDelivered =
                               @ \/ \E k \in 1 .. Len(_cancellations) :
                                        ints[_cancellations[k]].delivered,
                           !.escaped = IF SetDoneAssert THEN @ ELSE "AssertionError"]))

\* ------------------------------------------------ the loop's dispatch
Running == loop = "running"
HasEntry == Running /\ pending # <<>>
rest == Tail(pending)

\* The runner's first dispatch.
StartRunner ==
    /\ HasEntry
    /\ Head(pending).target = 0 /\ Head(pending).signal = 0
    /\ runner = "CREATED"
    /\ turn' = turn + 1
    /\ IF PreRunCancelled
       THEN \* self.payload.close(); return
            /\ payload' = [payload EXCEPT !.state = "closed"]
            /\ runner' = "RETURNED"
            /\ pending' = rest
            /\ hist' = hist
            /\ UNCHANGED <<_result, interrupts, _value, waiting, wpc, queue, loop>>
       ELSE WrapperStep(Segment, 0, rest, queue, interrupts,
                        [hist EXCEPT !.psteps = @ + 1])
    /\ UNCHANGED <<prog, _cancellations, _done, _inverse, NotDone_done, time, outcomes>>

\* A plain resumption of the suspended runner: the payload runs on.
ResumeRunner ==
    /\ HasEntry
    /\ Head(pending).target = 0 /\ Head(pending).signal = 0
    /\ runner = "SUSPENDED"
    /\ turn' = turn + 1
    /\ WrapperStep(Segment, 0, rest, queue, interrupts,
                   [hist EXCEPT !.psteps = @ + 1])
    /\ UNCHANGED <<prog, _cancellations, _done, _inverse, NotDone_done, time, outcomes>>

\* An interrupt that was not revoked is thrown into the suspended runner.
DeliverSignal ==
    /\ HasEntry
    /\ Head(pending).target = 0 /\ Head(pending).signal # 0
    /\ ~interrupts[Head(pending).signal].revoked
    /\ runner = "SUSPENDED"
    /\ turn' = turn + 1
    /\ LET i == Head(pending).signal IN
       WrapperStep(OnSignal, i, DropWake(rest), DropWake(queue),
                   [interrupts EXCEPT ![i].delivered = TRUE],
                   [hist EXCEPT !.psteps = @ + 1, !.psignals = @ + 1])
    /\ UNCHANGED <<prog, _cancellations, _done, _inverse, NotDone_done, time, outcomes>>

\* A revoked interrupt is skipped.
SkipRevoked ==
    /\ HasEntry
    /\ Head(pending).target = 0 /\ Head(pending).signal # 0
    /\ interrupts[Head(pending).signal].revoked
    /\ pending' = rest
    /\ hist' = hist
    /\ UNCHANGED <<prog, payload, runner, _result, _cancellations, interrupts, _done,
                   _value, _inverse, NotDone_done, waiting, time, turn, queue, loop,
                   wpc, outcomes>>

\* An entry of a runner that has ended resumes nothing.
DropStale ==
    /\ HasEntry
    /\ Head(pending).target = 0
    /\ RunnerDead
    /\ Head(pending).signal # 0 => ~interrupts[Head(pending).signal].revoked
    /\ pending' = rest
    /\ turn' = turn + 1
    /\ hist' = [hist EXCEPT !.lateThrows = IF Head(pending).signal # 0 THEN @ + 1 ELSE @]
    /\ UNCHANGED <<prog, payload, runner, _result, _cancellations, interrupts, _done,
                   _value, _inverse, NotDone_done, waiting, time, queue, loop,
                   wpc, outcomes>>

\* A waiter woken by the trigger of done runs on in Activity.__await__.
ResumeWaiter ==
    /\ HasEntry
    /\ Head(pending).target # 0
    /\ LET w == Head(pending).target IN
       /\ wpc' = [wpc EXCEPT ![w] = "idle"]
       /\ outcomes' = [outcomes EXCEPT ![w] = Append(@, AwaitOutcome)]
       /\ hist' = [hist EXCEPT !.resumeTimes = @ \cup {time}]
    /\ pending' = rest
    /\ turn' = turn + 1
    /\ UNCHANGED <<prog, payload, runner, _result, _cancellations, interrupts, _done,
                   _value, _inverse, NotDone_done, waiting, time, queue, loop>>

ReadyDrained_Unchecked == TRUE

\* the ready queue holds no entry due at the current time
ReadyDrained == pending = <<>>

\* Nothing is due now: time advances to the earliest later entry.
AdvanceTime ==
    /\ Running
    /\ ReadyDrained
    /\ queue # <<>>
    /\ LET t == CHOOSE t \in {queue[k].at : k \in 1 .. Len(queue)} :
                    \A k \in 1 .. Len(queue) : t <= queue[k].at
           due == SelectSeq(queue, LAMBDA e : e.at = t)
       IN /\ time' = t
          /\ pending' = [k \in 1 .. Len(due) |-> Entry(due[k].target, due[k].signal)]
          /\ queue' = SelectSeq(queue, LAMBDA e : e.at # t)
    /\ turn' = turn + 1
    /\ hist' = hist
    /\ UNCHANGED <<prog, payload, runner, _result, _cancellations, interrupts, _done,
                   _value, _inverse, NotDone_done, waiting, loop, wpc, outcomes>>

\* Nothing is left to run: the loop ends.
LoopFinish ==
    /\ Running
    /\ pending = <<>>
    /\ queue = <<>>
    /\ loop' = "finished"
    /\ hist' = hist
    /\ UNCHANGED <<prog, payload, runner, _result, _cancellations, interrupts, _done,
                   _value, _inverse, NotDone_done, waiting, time, turn, pending, queue,
                   wpc, outcomes>>

\* ------------------------------------------- calls made by other code
CanCall == Running /\ hist.ncalls < MaxCalls
Call(h, name) ==
    [h EXCEPT !.ncalls = @ + 1,
              !.late = IF _result # NoResult THEN @ \cup {name} ELSE @,
              !.cancelledCreated =
                  @ \/ (name = "cancel" /\ _result = NoResult /\ runner = "CREATED"),
              !.forced = @ \/ (name = "close" /\ _result = NoResult)]

\* Activity.cancel()
Cancel ==
    /\ CanCall
    /\ IF CancelGuard /\ status = CREATED
       THEN \* finalised at once; the runner is left to find the result
            /\ _result' = <<None, ActivityCancelled(Self, None)>>
            /\ SetDone(pending)
            /\ hist' = Call(HistStop(HistDone([hist EXCEPT !.assigned = @ + 1])), "cancel")
            /\ UNCHANGED <<_cancellations, interrupts>>
       ELSE IF CancelGuard /\ status # "AttributeError"
       THEN \* a new CancelActivity, scheduled for the runner now
            /\ interrupts' = Append(interrupts, [CancelActivity(Self) EXCEPT !.scheduled = TRUE])
            /\ _cancellations' = Append(_cancellations, Len(interrupts) + 1)
            /\ pending' = Append(pending, Entry(0, Len(interrupts) + 1))
            /\ hist' = Call(hist, "cancel")
            /\ UNCHANGED <<_result, _value, waiting, wpc>>
       ELSE /\ hist' = Call(hist, "cancel")
            /\ UNCHANGED <<_result, _cancellations, interrupts, _value, waiting, wpc, pending>>
    /\ UNCHANGED <<prog, payload, runner, _done, _inverse, NotDone_done, time, turn,
                   queue, loop, outcomes>>

\* coroutine.close() of the runner: GeneratorExit unwinds a started runner
\* and its payload; a runner that never started is only marked closed.
RunnerClose_Skipped == runner

RunnerClose == IF RunnerDead THEN runner ELSE "CLOSED"
PayloadClose ==
    IF runner = "SUSPENDED" THEN [payload EXCEPT !.state = "closed"] ELSE payload
\* The suspension that GeneratorExit unwinds gives up its resumption; the
\* first entry of a runner that never started stays in the loop.
CloseWake(q) == IF runner = "SUSPENDED" THEN DropWake(q) ELSE q

\* Activity.__close__()
Close ==
    /\ CanCall
    /\ IF CloseGuard
       THEN /\ runner' = RunnerClose
            /\ payload' = PayloadClose
            /\ queue' = CloseWake(queue)
            /\ _result' = <<None, ActivityExit>>
            /\ SetDone(CloseWake(pending))
            /\ hist' = Call(HistStop(HistDone([hist EXCEPT !.assigned = @ + 1])), "close")
       ELSE /\ hist' = Call(hist, "close")
            /\ UNCHANGED <<runner, payload, queue, _result, _value, waiting, wpc, pending>>
    /\ UNCHANGED <<prog, _cancellations, interrupts, _done, _inverse, NotDone_done,
                   time, turn, loop, outcomes>>

\* Activity.__del__: once the run is over nothing refers to the Activity,
\* and its finaliser closes the runner.
Del ==
    /\ ~Running
    /\ ~hist.deleted
    /\ runner' = RunnerClose
    /\ payload' = PayloadClose
    /\ hist' = [hist EXCEPT !.deleted = TRUE]
    /\ UNCHANGED <<prog, _result, _cancellations, interrupts, _done, _value, _inverse,
                   NotDone_done, waiting, time, turn, pending, queue, loop, wpc,
                   outcomes>>

\* A waiter starts "await activity": it goes on at once when done is true,
\* and is suspended on done otherwise.
Await(w) ==
    /\ Running
    /\ wpc[w] = "idle"
    /\ hist.nawaits < MaxAwaits
    /\ hist' = [hist EXCEPT !.nawaits = @ + 1]
    /\ IF Bool(done)
       THEN /\ outcomes' = [outcomes EXCEPT ![w] = Append(@, AwaitOutcome)]
            /\ UNCHANGED <<waiting, wpc>>
       ELSE /\ waiting' = Append(waiting, w)
            /\ wpc' = [wpc EXCEPT ![w] = "waiting"]
            /\ UNCHANGED outcomes
    /\ UNCHANGED <<prog, payload, runner, _result, _cancellations, interrupts, _done,
                   _value, _inverse, NotDone_done, time, turn, pending, queue, loop>>

\* Other code calls activity.done.__set_done__() itself.
DirectSetDone ==
    /\ CanCall
    /\ SetDone(pending)
    /\ hist' = Call(HistDone(hist), "set_done")
    /\ UNCHANGED <<prog, payload, runner, _result, _cancellations, interrupts, _done,
                   _inverse, NotDone_done, time, turn, queue, loop, outcomes>>

\* The routing of signals goes wrong: a CancelActivity made for another
\* Activity is scheduled for this Activity's suspended runner.
Misroute ==
    /\ CanCall
    /\ runner = "SUSPENDED"
    /\ \A i \in 1 .. Len(interrupts) : interrupts[i].subject = Self
    /\ interrupts' = Append(interrupts, [CancelActivity(Other) EXCEPT !.scheduled = TRUE])
    /\ pending' = Append(pending, Entry(0, Len(interrupts) + 1))
    /\ hist' = Call(hist, "misroute")
    /\ UNCHANGED <<prog, payload, runner, _result, _cancellations, _done, _value,
                   _inverse, NotDone_done, waiting, time, turn, queue, loop, wpc,
                   outcomes>>

\* ------------------------------------------------------ specifications
Next ==
    \/ StartRunner
    \/ ResumeRunner
    \/ DeliverSignal
    \/ SkipRevoked
    \/ DropStale
    \/ ResumeWaiter
    \/ AdvanceTime
    \/ LoopFinish
    \/ Cancel
    \/ Close
    \/ Del
    \/ \E w \in Waiters : Await(w)

\* The Activity driven through its interface only.
Spec == Init /\ [][Next]_vars

NextTrigger == Next \/ DirectSetDone

\* The same, with code that also triggers the completion condition itself.
SpecTrigger == Init /\ [][NextTrigger]_vars

NextMisroute == Next \/ Misroute

\* The Activity when a signal of another Activity can reach its runner.
SpecMisroute == Init /\ [][NextMisroute]_vars

\* ================================================================ claims
\* the awaits that have produced an outcome, as <<waiter, index>>
Awaited == {<<w, k>> \in Waiters \X (1 .. MaxAwaits) : k <= Len(outcomes[w])}

\* C1: over every run of dispatch steps, cancel() and __close__() calls and
\* awaits, _result is assigned at most once, and a status of SUCCESS, FAILED
\* or CANCELLED is never left.
C1_ResultWriteOnce ==
    /\ [](hist.assigned <= 1)
    /\ [][/\ _result # NoResult => _result' = _result
          /\ status \in FINISHED => status' = status]_vars

\* C1 happens: the Activity was cancelled before its first dispatch, was
\* called once more, and its runner was then dispatched.
C1_Witness ==
    /\ status = CANCELLED
    /\ hist.assigned = 1
    /\ hist.late # {}
    /\ runner = "RETURNED"

\* C2: once cancel() was called on the Activity in status CREATED, status is
\* CANCELLED and done is true at the return of the call, and the payload has
\* run zero steps in every later state.
C2_CancelCreatedNeverRuns ==
    hist.cancelledCreated =>
        /\ status = CANCELLED
        /\ Bool(done)
        /\ hist.psteps = 0
        /\ payload.state \in {"created", "closed"}

\* C2 happens: cancelled while CREATED, and the loop has dispatched the runner.
C2_Witness ==
    /\ hist.cancelledCreated
    /\ runner = "RETURNED"
    /\ payload.state = "closed"
    /\ hist.psteps = 0

\* C3: however often cancel() is called on the RUNNING Activity, its
\* computation receives at most one cancellation signal over the whole run,
\* and no other interrupt is ever delivered.
C3_AtMostOneSignal ==
    /\ hist.psignals <= 1
    /\ Cardinality({i \in 1 .. Len(interrupts) : interrupts[i].delivered}) <= 1

\* C4: when an interrupt of cancel() was delivered and the payload let it
\* propagate, then from the end of that dispatch step status is CANCELLED,
\* the stored error is a cancellation whose subject is this Activity, and
\* done is true.
C4_DeliveredCancels ==
    hist.propagated # 0 =>
        /\ status = CANCELLED
        /\ _result = <<None, ActivityCancelled(Self, hist.propagated)>>
        /\ _result[2].subject = Self
        /\ Bool(done)

\* C4 happens: cancel() was called twice while RUNNING and one of the two
\* interrupts reached the wrapper.
C4_Witness ==
    /\ hist.propagated # 0
    /\ Len(_cancellations) = 2
    /\ interrupts[hist.propagated].delivered

\* C5: when the payload raises an error that is no cancellation signal, that
\* error is the Activity's result, status is FAILED and done is triggered.
C5_FailureRecorded ==
    payload.state = "raised" =>
        /\ _result = <<None, DomainError>>
        /\ status = FAILED
        /\ Bool(done)

\* C6: every await of the Activity, by any waiter, any number of times,
\* begun before or after it finished, yields the same outcome: the stored
\* value, or the stored error raised.
C6_SameOutcome ==
    \A a \in Awaited :
        /\ outcomes[a[1]][a[2]] = AwaitOutcome
        /\ \A b \in Awaited : outcomes[a[1]][a[2]] = outcomes[b[1]][b[2]]

\* C6 happens: two waiters that were suspended on the Activity have run on,
\* and one of them has awaited it again after it finished.
C6_Witness ==
    /\ hist.resumeTimes # {}
    /\ \A w \in Waiters : outcomes[w] # <<>>
    /\ \E w \in Waiters : Len(outcomes[w]) >= 2

\* C7: once the unit of work has stopped for any reason, a waiter that is
\* still suspended is already scheduled at the time of the completion, the
\* loop goes on to run it before time advances, and no waiter ran on at
\* another time.
C7_WaitersResumed ==
    /\ \A t \in hist.resumeTimes : hist.stopTime = <<t>>
    /\ (hist.stopTime # <<>> /\ \E w \in Waiters : wpc[w] # "idle") =>
          /\ loop = "running"
          /\ hist.stopTime = <<time>>
          /\ \A w \in Waiters : wpc[w] # "waiting"

\* C8: cancel() and __close__() called on an Activity that has a result
\* change nothing: not the result, the status, done, the pending
\* cancellations, the interrupts or the loop's queues.
C8_FinishedNoOp ==
    [][(hist.ncalls' # hist.ncalls /\ _result # NoResult) =>
          /\ UNCHANGED <<prog, payload, runner, _result, _cancellations, interrupts,
                         _done, _value, _inverse, NotDone_done, waiting, time, turn,
                         pending, queue, loop, wpc, outcomes>>
          /\ status' = status
          /\ hist.setDoneCalls' = hist.setDoneCalls]_vars

\* C8 happens: both cancel() and __close__() were called after a result was set.
C8_Witness == hist.late = {"cancel", "close"}

\* C9: __set_done__ called when done is already true fails its assertion and
\* leaves done true; the flag goes from false to true once and never back.
C9_SecondTriggerFails ==
    [][/\ _value => _value'
       /\ (_value /\ hist.setDoneCalls' # hist.setDoneCalls) =>
              /\ hist.assertFails' = hist.assertFails + 1
              /\ UNCHANGED <<_value, waiting, wpc>>]_vars

\* C9 happens: a second __set_done__ failed on a finished Activity.
C9_Witness ==
    /\ hist.assertFails >= 1
    /\ _value
    /\ status \in FINISHED

\* C10: in every state bool(done) = not bool(~done), and ~~done is done itself.
C10_Complement ==
    /\ Bool(done) = ~Bool(Invert(done))
    /\ Invert(Invert(done)) = done

\* C10 happens after completion: done is true and its complement false.
C10_Witness ==
    /\ status \in FINISHED
    /\ Bool(done)
    /\ ~Bool(Invert(done))

C12_StatusFunction ==
    LET has == _result # NoResult
        own == has /\ _result[2].type = "ActivityCancelled" /\ _result[2].subject = Self
    IN /\ status \in {CREATED, RUNNING, SUCCESS, CANCELLED, FAILED}
       /\ status = CREATED <=> (~has /\ runner = "CREATED")
       /\ status = RUNNING <=> (~has /\ runner # "CREATED")
       /\ status = SUCCESS <=> (has /\ _result[2] = NoError)
       /\ status = CANCELLED <=> own
       /\ status = FAILED <=> (has /\ _result[2] # NoError /\ ~own)

\* C13: over a whole run the pair (time, turn) never decreases, and time
\* moves to a later value only from a state whose ready queue is empty.
C13_ClockMonotone ==
    [][/\ time' > time \/ (time' = time /\ turn' >= turn)
       /\ time' # time => pending = <<>>]_vars

\* C13 happens: time has advanced and the run went on to complete the work.
C13_Witness ==
    /\ time >= 1
    /\ turn >= 3
    /\ status = SUCCESS

\* C15: whenever the Activity has a result, every Interrupt of its pending
\* cancellations that was not delivered is revoked, and no cancellation
\* signal is thrown at the computation of an Activity that has a result.
C15_PendingRevoked ==
    /\ _result # NoResult =>
          \A k \in 1 .. Len(_cancellations) :
              \/ interrupts[_cancellations[k]].delivered
              \/ interrupts[_cancellations[k]].revoked
    /\ hist.lateThrows = 0

\* C16: revoke() is never invoked on an Interrupt that was delivered.
C16_NoRevokeDelivered == ~hist.revokedDelivered

\* C17: when the wrapper catches a CancelActivity whose subject is another
\* Activity, the step ends in a failed assertion: no result is recorded,
\* status is not CANCELLED and done is not triggered.
C17_MisroutedAborts ==
    (hist.propagated # 0 /\ interrupts[hist.propagated].subject # Self) =>
        /\ hist.escaped = "AssertionError"
        /\ runner = "RAISED"
        /\ loop = "aborted"
        /\ _result = NoResult
        /\ hist.assigned = 0
        /\ status # CANCELLED
        /\ ~Bool(done)
        /\ hist.setDoneCalls = 0

\* C17 happens: the wrapper caught the other Activity's signal while a
\* cancellation of its own was pending and a waiter was suspended on done.
C17_Witness ==
    /\ hist.propagated # 0
    /\ interrupts[hist.propagated].subject = Other
    /\ payload.state = "cancelled"
    /\ _cancellations # <<>>
    /\ waiting # <<>>

\* C18: cancel() on a RUNNING Activity is asynchronous.  A call made while
\* status is RUNNING that is not a forced close is a cancel(): after it the
\* result is still unset, status is still RUNNING and done is still false;
\* exactly one new Interrupt with this Activity as subject and scheduled set
\* is appended to the pending cancellations, one delivery to the runner is
\* enqueued at the current time, and nothing else changes.
C18_CancelRunningFrame ==
    [][(status = RUNNING /\ hist.ncalls' = hist.ncalls + 1 /\ ~hist.forced') =>
          LET n == Len(interrupts) + 1 IN
          /\ _result' = NoResult
          /\ status' = RUNNING
          /\ ~(Bool(done))'
          /\ interrupts' = Append(interrupts,
                 [subject |-> Self, scheduled |-> TRUE,
                  revoked |-> FALSE, delivered |-> FALSE])
          /\ _cancellations' = Append(_cancellations, n)
          /\ pending' = Append(pending, Entry(0, n))
          /\ UNCHANGED <<prog, payload, runner, _done, _value, _inverse, NotDone_done,
                         waiting, time, turn, queue, loop, wpc, outcomes>>]_vars

\* C18 happens: two cancel() calls were made on the RUNNING Activity while a
\* waiter was suspended on done, and both deliveries are still enqueued.
C18_Witness ==
    /\ status = RUNNING
    /\ Len(_cancellations) = 2
    /\ waiting # <<>>
    /\ \A k \in 1 .. 2 : \E j \in 1 .. Len(pending) : pending[j] = Entry(0, _cancellations[k])

\* C19: between any two operations or dispatch steps done is true exactly
\* when the result is set, and once the result is set the payload never
\* executes another step.
C19_DoneIffResult ==
    /\ [](Bool(done) <=> _result # NoResult)
    /\ [][_result # NoResult =>
             /\ hist.psteps' = hist.psteps
             /\ hist.psignals' = hist.psignals
             /\ payload.pc' = payload.pc]_vars

\* C19 happens: the Activity was cancelled before its first dispatch, and
\* the runner was then dispatched without running the payload.
C19_Witness ==
    /\ hist.cancelledCreated
    /\ runner = "RETURNED"
    /\ Bool(done)
    /\ hist.psteps = 0

\* C20: no interleaving of cancel() calls, __close__() calls and dispatch
\* steps makes the assertion of Done.__set_done__ fail: done is triggered
\* at most once.
C20_TriggeredOnce ==
    /\ hist.assertFails = 0
    /\ hist.setDoneCalls <= 1
    /\ hist.escaped # "AssertionError"

\* C20 happens: __close__() raced with a pending cancellation, whose signal
\* then reached the closed runner, and done was triggered once.
C20_Witness ==
    /\ _result = <<None, ActivityExit>>
    /\ _cancellations # <<>>
    /\ hist.lateThrows >= 1
    /\ hist.setDoneCalls = 1

====
